---- MODULE Spec2Model ----
(***************************************************************************)
(* binplay: a raw-PCM file player.  The control thread (main,              *)
(* binplay_exec) and the PortAudio callback thread (stereo_callback,       *)
(* binplay_process_audio) share the global Binplay object and the globals  *)
(* g_volume, g_loop_after_complete without any synchronisation, so the     *)
(* model interleaves them at the granularity of the loads and stores of    *)
(* the shared fields.                                                      *)
(*                                                                         *)
(* Integers: i32 values are held as themselves.  TLC's integers are 32 bit *)
(* wide, so a u32 value is held as the i32 with the same bit pattern (a    *)
(* u32 of 2^31 or more is held as a negative number) and compared with     *)
(* U32Less.  Gain (f32) is held in hundredths.                             *)
(***************************************************************************)
EXTENDS Integers, Sequences, FiniteSets, TLC

\* ---------------------------------------------------------------- bounds
\* Producer invocations started in one run.
MaxProd == 3
\* Control commands read in one run (request-exit stays possible after it).
MaxCmds == 1

\* ------------------------------------------------------ program constants
SAMPLE_RATE == 44100
SAMPLE_SIZE == 2
CHANNEL_COUNT == 2
g_cursor_speed == 5 * SAMPLE_RATE * SAMPLE_SIZE * CHANNEL_COUNT
VolumeStep == 5
VolumeMax == 100
VolumeMin == 0
DefaultVolume == 100
DefaultLoop == 1

MaxI32 == 2147483647
MinI32 == (-2147483647) - 1
MaxI16 == 32767
MinI16 == -32768

\* --------------------------------------------------------------- inputs
\* A file longer than two seek steps.
LongFile == 2 * g_cursor_speed + 10
\* A file of 2^31 - 4 bytes and one of 2^31 + 4 bytes (u32 bit pattern).
NearMaxFile == MaxI32 - 3
HugeFile == MinI32 + 4
\* The runs examined: << frames per buffer (-f), sample size (-s), length of
\* the source file in bytes as ftell reports it (u32 bit pattern), startup
\* volume in hundredths (-v) >>.  The defaults of the program are 512, 2 and
\* 1.0; small frame counts keep the block buffer small.
Runs ==
  { << 1, 2, 8, DefaultVolume >>,        \* two whole blocks
    << 1, 2, 6, DefaultVolume >>,        \* a partial last block
    << 1, 2, 3, DefaultVolume >>,        \* shorter than one block
    << 1, 2, 0, DefaultVolume >>,        \* empty
    << 1, 2, LongFile, DefaultVolume >>,
    << 1, 2, NearMaxFile, DefaultVolume >>,
    << 1, 2, HugeFile, DefaultVolume >>,
    << 1, 2, 8, 150 >>,                  \* -v 1.5
    << 1, 2, 8, 0 >>,                    \* -v 0
    << 1, 1, 4, DefaultVolume >>,        \* 8 bit samples, two blocks
    << 1, 4, 8, DefaultVolume >>,        \* 32 bit samples, one block
    << 2, 2, 8, DefaultVolume >>,        \* two frames per buffer, one block
    << 2, 2, 12, DefaultVolume >> }      \* and a partial second block
\* What an uninitialised or out-of-bounds 16 bit read may yield.
GarbageSamples == { 0, 21845 }
\* A block-buffer byte that was never written (malloc does not initialise).
Uninit == -1
\* An i16 read that involves such a byte or lies outside the block buffer.
NoSample == MinI16 - 1

\* ---------------------------------------------------- integer arithmetic
\* (i32)(a + b) for i32 a, b: the sum when it is representable, else the
\* two's complement wrap (signed overflow; the wrap is what gcc's add
\* instruction yields).
AddI32(a, b) ==
  IF b >= 0
    THEN IF a <= MaxI32 - b THEN a + b ELSE (a + MinI32) + (b + MinI32)
    ELSE IF a >= MinI32 - b THEN a + b ELSE (a - MinI32) + (b - MinI32)

\* a < b for u32 bit patterns.
U32Less(a, b) ==
  IF (a < 0) = (b < 0) THEN a < b ELSE b < 0

\* (i32)u for a u32 bit pattern u: the same bits (implementation defined,
\* modulo 2^32 with gcc).
ToI32(u) == u

Min(a, b) == IF a < b THEN a ELSE b
Max(a, b) == IF a > b THEN a ELSE b

CLAMP(V, MIN, MAX) == IF V > MAX THEN MAX ELSE IF V < MIN THEN MIN ELSE V

\* ------------------------------------------------------------ the source
\* Byte i of the source file (any content; a fixed pattern with samples of
\* both signs and of large magnitude).
FileByte(i) == ((i % 256) * 37 + 11) % 256

\* Bytes the file holds at and after offset off (off >= 0), capped at n.
Available(size, off, n) ==
  IF size < 0
    THEN (IF off <= MaxI32 - n THEN n
          ELSE Min(n, ((MaxI32 - off) + 1) + (size - MinI32)))
    ELSE IF off >= size THEN 0 ELSE Min(n, size - off)

\* file_buffer[i]: the i16 at index i (from 0) of the byte buffer buf seen
\* as i16* (little endian); NoSample when a byte of it was never written or
\* lies outside the buffer.
SampleAt(buf, i) ==
  IF 2 * i + 2 > Len(buf) THEN NoSample
  ELSE LET lo == buf[2 * i + 1]
           hi == buf[2 * i + 2]
       IN IF lo = Uninit \/ hi = Uninit THEN NoSample
          ELSE IF hi >= 128 THEN lo + 256 * hi - 65536 ELSE lo + 256 * hi

\* (i16)(g_volume * s) for gain g in hundredths and sample s: the product
\* truncated toward zero.  Outside the i16 range the conversion is undefined:
\* the low 16 bits (x86 cvttss2si, then a 16 bit store) or the saturated
\* value.
TruncDiv(x, d) == IF x >= 0 THEN x \div d ELSE -((-x) \div d)
WrapI16(v) == LET m == v % 65536 IN IF m >= 32768 THEN m - 65536 ELSE m
ScaleOutcomes(g, s) ==
  LET v == TruncDiv(g * s, VolumeMax)
  IN IF v > MaxI16 THEN { WrapI16(v), MaxI16 }
     ELSE IF v < MinI16 THEN { WrapI16(v), MinI16 }
     ELSE { v }

\* The value read as file_buffer[i] when a read that involves an
\* uninitialised or out-of-bounds byte yields g.
ReadSample(buf, i, g) ==
  IF SampleAt(buf, i) = NoSample THEN g ELSE SampleAt(buf, i)

\* The blocks the scaling loop of lines 885-887 may write: n samples, sample
\* i being g_volume * file_buffer[i].  The reads of bytes that were never
\* written yield an arbitrary value (one value per invocation here), an
\* out-of-range conversion one of its outcomes.
OutBlocks(gain, buf, n) ==
  UNION { { o \in [1..n -> UNION { ScaleOutcomes(gain, ReadSample(buf, i - 1, g)) : i \in 1..n }] :
              \A i \in 1..n : o[i] \in ScaleOutcomes(gain, ReadSample(buf, i - 1, g)) } :
          g \in GarbageSamples }

\* ----------------------------------------------------------------- state
VARIABLES
  g_frames_per_buffer, \* -f
  g_sample_size,       \* -s
  g_volume,            \* gain in hundredths, -v
  g_loop_after_complete,
  srcLen,              \* length of the file on disk (u32 bit pattern)
  fp,                  \* b->fp: "null", "open", "closed"
  fpos,                \* position of the FILE
  file_size,           \* b->file_size  (u32 bit pattern)
  file_cursor,         \* b->file_cursor (i32)
  done,                \* b->done
  play,                \* b->play
  output_size,         \* b->output_size
  output,              \* the bytes b->output points to
  outputState,         \* "null", "alloc", "freed"
  pa,                  \* PortAudio library: "off", "on", "terminated"
  paTerminates,        \* calls of Pa_Terminate
  stream,              \* "none", "open", "active", "finished", "closed"
  pc,                  \* position of the control thread
  a1,                  \* a[1] of the arrow-key sequence being handled
  clampTmp,            \* value of the CLAMP expression before it is stored
  ppc,                 \* position of the callback thread
  bytes_read,          \* local of binplay_process_audio (0 between invocations)
  advTmp,              \* b->file_cursor as loaded by the += of line 888
  out,                 \* the device block written by the last invocation
  readOff,             \* offset given to fseek by the invocation in progress
  didRead,             \* whether the last invocation called fseek and fread
  nprod,               \* producer invocations started
  ncmd,                \* control commands read
  seekFrom,            \* << b->file_cursor when the arrow key being handled
                       \* was read >>, << >> if the callback read since
  setup                \* how far setup got: history of the run

vars == << g_frames_per_buffer, g_sample_size, g_volume, g_loop_after_complete,
           srcLen, fp, fpos, file_size, file_cursor, done, play, output_size,
           output, outputState, pa, paTerminates, stream, pc, a1, clampTmp,
           ppc, bytes_read, advTmp, out, readOff, didRead, nprod, ncmd,
           seekFrom, setup >>

cfgVars == << g_frames_per_buffer, g_sample_size, g_loop_after_complete, srcLen >>
fileVars == << fp, fpos, file_size >>
bufVars == << output_size, output, outputState >>
paVars == << pa, paTerminates, stream >>
prodVars == << ppc, bytes_read, advTmp, out, readOff, didRead, nprod >>

\* g_frames_per_buffer * g_sample_size * CHANNEL_COUNT (lines 733, 882, 888).
BlockBytes == g_frames_per_buffer * g_sample_size * CHANNEL_COUNT
\* g_frames_per_buffer * CHANNEL_COUNT: the samples of one device block.
BlockSamples == g_frames_per_buffer * CHANNEL_COUNT

\* The state at the start of main, after parse_args: Binplay binplay = {0},
\* the globals as initialised or as set by the options.
InitWith(loops) ==
  /\ \E r \in Runs :
       /\ g_frames_per_buffer = r[1] /\ g_sample_size = r[2]
       /\ srcLen = r[3] /\ g_volume = r[4]
  /\ g_loop_after_complete \in loops
  /\ fp = "null" /\ fpos = 0 /\ file_size = 0 /\ file_cursor = 0
  /\ done = 0 /\ play = 0 /\ output_size = 0 /\ output = << >>
  /\ outputState = "null"
  /\ pa = "off" /\ paTerminates = 0 /\ stream = "none"
  /\ pc = "init" /\ a1 = 0 /\ clampTmp = 0
  /\ ppc = "idle" /\ bytes_read = 0 /\ advTmp = 0 /\ out = << >>
  /\ readOff = 0 /\ didRead = FALSE
  /\ nprod = 0 /\ ncmd = 0 /\ seekFrom = << >> /\ setup = "none"

Init == InitWith({ DefaultLoop })

\* ------------------------------------------------------ setup (main thread)
\* binplay_init: fopen may fail, malloc may fail.
binplay_init ==
  /\ pc = "init"
  /\ \E opened \in BOOLEAN, allocated \in BOOLEAN :
       IF ~opened
         THEN /\ pc' = "done" /\ setup' = "open_failed"
              /\ UNCHANGED << fileVars, file_cursor, done, play, bufVars >>
         ELSE /\ fp' = "open" /\ fpos' = 0 /\ file_size' = srcLen
              /\ file_cursor' = 0 /\ done' = 0 /\ play' = 1
              /\ IF allocated
                   THEN /\ output_size' = BlockBytes
                        /\ output' = [i \in 1..BlockBytes |-> Uninit]
                        /\ outputState' = "alloc"
                        /\ pc' = "open_stream" /\ setup' = "init"
                   ELSE /\ output_size' = 0 /\ output' = << >>
                        /\ outputState' = "null"
                        /\ pc' = "done" /\ setup' = "alloc_failed"
  /\ UNCHANGED << cfgVars, g_volume, paVars, a1, clampTmp, prodVars, ncmd,
                  seekFrom >>

\* binplay_open_stream: Pa_Initialize, Pa_IsFormatSupported, Pa_OpenStream.
binplay_open_stream ==
  /\ pc = "open_stream"
  /\ \E r \in { "ok", "init_failed", "unsupported", "open_failed" } :
       /\ setup' = (IF r = "ok" THEN "opened" ELSE r)
       /\ pc' = (IF r = "ok" THEN "start_stream" ELSE "exit_fclose")
       /\ stream' = (IF r = "ok" THEN "open" ELSE "none")
       /\ pa' = (CASE r = "ok" -> "on"
                   [] r = "unsupported" -> "on"
                   [] OTHER -> "terminated")
       /\ paTerminates' = (IF r \in { "init_failed", "open_failed" }
                             THEN paTerminates + 1 ELSE paTerminates)
  /\ UNCHANGED << cfgVars, g_volume, fileVars, file_cursor, done, play, bufVars,
                  a1, clampTmp, prodVars, ncmd, seekFrom >>

\* binplay_start_stream, called by binplay_exec, which ignores its result and
\* enters the control loop.
binplay_start_stream ==
  /\ pc = "start_stream"
  /\ \E ok \in BOOLEAN :
       IF ok
         THEN /\ stream' = "active" /\ setup' = "started"
              /\ UNCHANGED << pa, paTerminates >>
         ELSE /\ stream' = "closed" /\ setup' = "start_failed"
              /\ pa' = "terminated" /\ paTerminates' = paTerminates + 1
  /\ pc' = "loop"
  /\ UNCHANGED << cfgVars, g_volume, fileVars, file_cursor, done, play, bufVars,
                  a1, clampTmp, prodVars, ncmd, seekFrom >>

\* ------------------------------------------- control loop (binplay_exec)
KEY_LEFT == 68
KEY_RIGHT == 67
KEY_UP == 65
KEY_DOWN == 66
\* Any other third byte of an escape sequence "ESC [ x".
KEY_OTHER == 70
ArrowKeys == { KEY_LEFT, KEY_RIGHT, KEY_UP, KEY_DOWN, KEY_OTHER }

\* InLoop for a loop that reads the next key before it tests b->done.
InLoopIgnoringDone == pc = "loop" /\ ncmd < MaxCmds

\* while (!b->done) and a byte was read.
InLoop == pc = "loop" /\ done = 0 /\ ncmd < MaxCmds

\* case 32: b->play = !b->play.
TogglePlay ==
  /\ InLoop
  /\ play' = (IF play = 0 THEN 1 ELSE 0)
  /\ ncmd' = ncmd + 1
  /\ UNCHANGED << cfgVars, g_volume, fileVars, file_cursor, done, bufVars,
                  paVars, pc, a1, clampTmp, prodVars, seekFrom, setup >>

\* case 'r': b->file_cursor = 0.
SeekToStart ==
  /\ InLoop
  /\ file_cursor' = 0
  /\ ncmd' = ncmd + 1
  /\ UNCHANGED << cfgVars, g_volume, fileVars, done, play, bufVars, paVars, pc,
                  a1, clampTmp, prodVars, seekFrom, setup >>

\* case 'e': b->file_cursor = b->file_size (u32 converted to i32).
SeekToEnd ==
  /\ InLoop
  /\ file_cursor' = ToI32(file_size)
  /\ ncmd' = ncmd + 1
  /\ UNCHANGED << cfgVars, g_volume, fileVars, done, play, bufVars, paVars, pc,
                  a1, clampTmp, prodVars, seekFrom, setup >>

\* case 27 with a[0] == 91, lines 785-791: the -= or += of the cursor for
\* left and right; every key of the sequence goes on to both CLAMPs.
ArrowKey ==
  /\ InLoop
  /\ \E k \in ArrowKeys :
       /\ a1' = k
       /\ file_cursor' = (CASE k = KEY_LEFT -> AddI32(file_cursor, -g_cursor_speed)
                            [] k = KEY_RIGHT -> AddI32(file_cursor, g_cursor_speed)
                            [] OTHER -> file_cursor)
  /\ pc' = "clamp_cursor"
  /\ ncmd' = ncmd + 1
  /\ seekFrom' = (IF ppc = "idle" THEN << file_cursor >> ELSE << >>)
  /\ UNCHANGED << cfgVars, g_volume, fileVars, done, play, bufVars, paVars,
                  clampTmp, prodVars, setup >>

\* Line 792, right-hand side: CLAMP(b->file_cursor, 0, (i32)b->file_size).
ClampCursorEval ==
  /\ pc = "clamp_cursor"
  /\ clampTmp' = CLAMP(file_cursor, 0, ToI32(file_size))
  /\ pc' = "clamp_cursor_store"
  /\ UNCHANGED << cfgVars, g_volume, fileVars, file_cursor, done, play, bufVars,
                  paVars, a1, prodVars, ncmd, seekFrom, setup >>

\* Line 792, the store, and lines 794-800: g_volume += 0.05f for up,
\* g_volume -= 0.05f for down (two stores to different variables, each read
\* by a different step of the callback: one step).
ClampCursorStore ==
  /\ pc = "clamp_cursor_store"
  /\ file_cursor' = clampTmp
  /\ clampTmp' = 0
  /\ g_volume' = (CASE a1 = KEY_UP -> g_volume + VolumeStep
                    [] a1 = KEY_DOWN -> g_volume - VolumeStep
                    [] OTHER -> g_volume)
  /\ pc' = "clamp_volume"
  /\ UNCHANGED << cfgVars, fileVars, done, play, bufVars, paVars, a1, prodVars,
                  ncmd, seekFrom, setup >>

\* Line 801: g_volume = CLAMP(g_volume, 0.0f, 1.0f); the command is done.
VolumeClamp ==
  /\ pc = "clamp_volume"
  /\ g_volume' = CLAMP(g_volume, VolumeMin, VolumeMax)
  /\ a1' = 0
  /\ seekFrom' = << >>
  /\ pc' = "loop"
  /\ UNCHANGED << cfgVars, fileVars, file_cursor, done, play, bufVars, paVars,
                  clampTmp, prodVars, ncmd, setup >>

\* case 4 (Ctrl+D): b->done = 1; the control thread goes on to the display
\* calls of lines 816-817 and to the test of the while.
RequestExit ==
  /\ pc = "loop" /\ done = 0
  /\ done' = 1
  /\ UNCHANGED << cfgVars, g_volume, fileVars, file_cursor, play, bufVars,
                  paVars, pc, a1, clampTmp, prodVars, ncmd, seekFrom, setup >>

\* while (!b->done) finds b->done set: binplay_exec returns and main calls
\* binplay_exit.
ExecReturn ==
  /\ pc = "loop" /\ done # 0
  /\ pc' = "exit_fclose"
  /\ UNCHANGED << cfgVars, g_volume, fileVars, file_cursor, done, play, bufVars,
                  paVars, a1, clampTmp, prodVars, ncmd, seekFrom, setup >>

\* ------------------------------------------------- teardown (binplay_exit)
\* fclose(b->fp).
ExitFclose ==
  /\ pc = "exit_fclose"
  /\ fp' = "closed"
  /\ pc' = "exit_free"
  /\ UNCHANGED << cfgVars, g_volume, fpos, file_size, file_cursor, done, play,
                  bufVars, paVars, a1, clampTmp, prodVars, ncmd, seekFrom,
                  setup >>

\* free(b->output); b->output_size = 0.  The freed bytes are no longer the
\* program's: whatever is read from them afterwards is arbitrary.
ExitFree ==
  /\ pc = "exit_free"
  /\ outputState' = "freed"
  /\ output' = [i \in 1..Len(output) |-> Uninit]
  /\ output_size' = 0
  /\ pc' = "exit_close_stream"
  /\ UNCHANGED << cfgVars, g_volume, fileVars, file_cursor, done, play, paVars,
                  a1, clampTmp, prodVars, ncmd, seekFrom, setup >>

\* Pa_CloseStream(stream): stops an active stream, returning once the
\* callback in progress has returned; an error for a stream that is not open.
ExitCloseStream ==
  /\ pc = "exit_close_stream"
  /\ stream = "active" => ppc = "idle"
  /\ stream' = (IF stream \in { "open", "active", "finished" }
                  THEN "closed" ELSE stream)
  /\ pc' = "exit_terminate"
  /\ UNCHANGED << cfgVars, g_volume, fileVars, file_cursor, done, play, bufVars,
                  pa, paTerminates, a1, clampTmp, prodVars, ncmd, seekFrom,
                  setup >>

\* Pa_Terminate().
ExitTerminate ==
  /\ pc = "exit_terminate"
  /\ pa' = "terminated"
  /\ paTerminates' = paTerminates + 1
  /\ pc' = "done"
  /\ UNCHANGED << cfgVars, g_volume, fileVars, file_cursor, done, play, bufVars,
                  stream, a1, clampTmp, prodVars, ncmd, seekFrom, setup >>

\* ------------------------- the callback (stereo_callback, process_audio)
\* enum Error_code.
Error == -1
NoError == 0

\* binplay_process_audio that reports an error once playback is off.
process_audio_until_stopped(playing) == IF playing = 0 THEN Error ELSE NoError

\* The value binplay_process_audio returns, playing being b->play when it
\* returns: NoError at line 897 and at line 905.
binplay_process_audio(playing) == NoError

\* stereo_callback: paContinue for NoError, else paComplete.
stereo_callback(result) ==
  IF result = NoError THEN "paContinue" ELSE "paComplete"

\* The stream after a callback that returned r: PortAudio calls the callback
\* of an active stream again unless it returned paComplete.
StreamAfter(r) ==
  IF stream = "active" /\ r = "paComplete" THEN "finished" ELSE stream

\* Invoked for a callback that PortAudio would call as soon as the stream is
\* open, before Pa_StartStream.
InvokedOnceOpen ==
  stream \in { "open", "active" } /\ ppc = "idle" /\ nprod < MaxProd

\* PortAudio invokes the callback of an active stream, one invocation at a
\* time.
Invoked == stream = "active" /\ ppc = "idle" /\ nprod < MaxProd

\* Lines 900-905: b->play is 0, the device block is zeroed; the invocation
\* returns.
ProcSilence ==
  /\ Invoked
  /\ play = 0
  /\ out' = [i \in 1..BlockSamples |-> 0]
  /\ didRead' = FALSE
  /\ nprod' = nprod + 1
  /\ stream' = StreamAfter(stereo_callback(binplay_process_audio(play)))
  /\ UNCHANGED << cfgVars, g_volume, fileVars, file_cursor, done, play, bufVars,
                  pa, paTerminates, pc, a1, clampTmp, ppc, bytes_read, advTmp,
                  readOff, ncmd, seekFrom, setup >>

\* Lines 882-887.  fseek(b->fp, b->file_cursor, SEEK_SET) fails for a
\* negative offset and then leaves the position where it was;
\* fread(file_buffer, 1, bytes_to_read, b->fp) overwrites the first bytes_read
\* bytes of the block buffer and no others; on a FILE that was closed the
\* calls are undefined: they fail (0 bytes) or still deliver.  The loop then
\* writes every sample of the device block as g_volume times file_buffer[i],
\* whatever bytes_read was.
ProcRead ==
  /\ Invoked
  /\ play # 0
  /\ LET off == file_cursor
         pos == IF off < 0 THEN fpos ELSE off
         avail == Available(srcLen, pos, BlockBytes)
     IN \E n \in (IF fp = "open" THEN { avail } ELSE { 0, avail }) :
          LET filled == [i \in 1..Len(output) |->
                           IF i <= n /\ outputState = "alloc"
                             THEN FileByte(pos + (i - 1)) ELSE output[i]]
          IN /\ readOff' = off
             /\ bytes_read' = n
             /\ fpos' = pos + n
             /\ output' = filled
             /\ out' \in OutBlocks(g_volume, filled, BlockSamples)
  /\ didRead' = TRUE
  /\ nprod' = nprod + 1
  /\ seekFrom' = << >>
  /\ ppc' = "advance"
  /\ UNCHANGED << cfgVars, g_volume, fp, file_size, file_cursor, done, play,
                  output_size, outputState, paVars, pc, a1, clampTmp, advTmp,
                  ncmd, setup >>

\* Line 888, the load of b->file_cursor += ...
ProcAdvanceLoad ==
  /\ ppc = "advance"
  /\ advTmp' = file_cursor
  /\ ppc' = "advance_store"
  /\ UNCHANGED << cfgVars, g_volume, fileVars, file_cursor, done, play, bufVars,
                  paVars, pc, a1, clampTmp, bytes_read, out, readOff, didRead,
                  nprod, ncmd, seekFrom, setup >>

\* ProcAdvanceStore that advances by a block of SAMPLE_SIZE byte samples,
\* whatever -s was.
ProcAdvanceStoreFixedSize ==
  /\ ppc = "advance_store"
  /\ file_cursor' = AddI32(advTmp, g_frames_per_buffer * SAMPLE_SIZE * CHANNEL_COUNT)
  /\ advTmp' = 0
  /\ ppc' = "eos"
  /\ UNCHANGED << cfgVars, g_volume, fileVars, done, play, bufVars, paVars, pc,
                  a1, clampTmp, bytes_read, out, readOff, didRead, nprod, ncmd,
                  seekFrom, setup >>

\* Line 888, the store.
ProcAdvanceStore ==
  /\ ppc = "advance_store"
  /\ file_cursor' = AddI32(advTmp, BlockBytes)
  /\ advTmp' = 0
  /\ ppc' = "eos"
  /\ UNCHANGED << cfgVars, g_volume, fileVars, done, play, bufVars, paVars, pc,
                  a1, clampTmp, bytes_read, out, readOff, didRead, nprod, ncmd,
                  seekFrom, setup >>

\* EndOfStream with > for >= : the end of the stream is seen one period late.
EndOfStreamLate ==
  bytes_read < BlockBytes \/ U32Less(file_size, file_cursor)

\* Line 889: bytes_read < bytes_to_read || b->file_cursor >= b->file_size,
\* the comparison of the cursor being unsigned.
EndOfStream ==
  bytes_read < BlockBytes \/ ~U32Less(file_cursor, file_size)

\* ProcEos that forgets the reset of the cursor when looping.
ProcEosNoReset ==
  /\ ppc = "eos"
  /\ IF EndOfStream /\ g_loop_after_complete = 0
       THEN file_cursor' = ToI32(file_size) /\ play' = 0
       ELSE UNCHANGED << file_cursor, play >>
  /\ ppc' = "idle"
  /\ bytes_read' = 0 /\ readOff' = 0
  /\ stream' = StreamAfter(stereo_callback(binplay_process_audio(play')))
  /\ UNCHANGED << cfgVars, g_volume, fileVars, done, bufVars, pa, paTerminates,
                  pc, a1, clampTmp, advTmp, out, didRead, nprod, ncmd, seekFrom,
                  setup >>

\* Lines 889-898: the end-of-stream policy; the invocation returns.
ProcEos ==
  /\ ppc = "eos"
  /\ IF EndOfStream
       THEN IF g_loop_after_complete # 0
              THEN file_cursor' = 0 /\ play' = play
              ELSE file_cursor' = ToI32(file_size) /\ play' = 0
       ELSE UNCHANGED << file_cursor, play >>
  /\ ppc' = "idle"
  /\ bytes_read' = 0 /\ readOff' = 0
  /\ stream' = StreamAfter(stereo_callback(binplay_process_audio(play')))
  /\ UNCHANGED << cfgVars, g_volume, fileVars, done, bufVars, pa, paTerminates,
                  pc, a1, clampTmp, advTmp, out, didRead, nprod, ncmd, seekFrom,
                  setup >>

\* ---------------------------------------------------------- specification
Control ==
  \/ binplay_init \/ binplay_open_stream \/ binplay_start_stream
  \/ TogglePlay \/ SeekToStart \/ SeekToEnd
  \/ ArrowKey \/ ClampCursorEval \/ ClampCursorStore \/ VolumeClamp
  \/ RequestExit \/ ExecReturn
  \/ ExitFclose \/ ExitFree \/ ExitCloseStream \/ ExitTerminate

Producer ==
  \/ ProcSilence \/ ProcRead
  \/ ProcAdvanceLoad \/ ProcAdvanceStore \/ ProcEos

Next == Control \/ Producer

Spec == Init /\ [][Next]_vars

\* The same program built with g_loop_after_complete = 0: the global is
\* written by no command and no option, its value is a build-time setting.
InitLoopOff == InitWith({ 0 })
SpecLoopOff == InitLoopOff /\ [][Next]_vars

\* The program built with either value of g_loop_after_complete.
InitAnyLoop == InitWith({ 0, 1 })
SpecAnyLoop == InitAnyLoop /\ [][Next]_vars

\* The control thread keeps running: once b->done is set, the test of the
\* while is reached and binplay_exec returns.
SpecLive == Init /\ [][Next]_vars /\ WF_vars(ExecReturn)

\* ================================================================ claims
\* sizeof(i16): the bytes of one sample of the device block (paInt16).
SampleBytes == 2

\* 0 <= c <= source length, the length being the u32 file_size (a negative
\* bit pattern is a length of 2^31 or more, above every i32).
InRange(c) == c >= 0 /\ (file_size < 0 \/ c <= file_size)

\* The all-zero device block.
Silence == [i \in 1..BlockSamples |-> 0]

\* The session runs and no control command has been read so far.
Undisturbed == setup = "started" /\ pc = "loop" /\ ncmd = 0

\* The source is k >= 1 whole blocks long.
WholeBlocks == file_size > 0 /\ file_size % BlockBytes = 0
Blocks == file_size \div BlockBytes

\* The 16 bit sample at index i (from 0) of the block of the file at off.
FileSample(off, i) ==
  LET lo == FileByte(off + 2 * i)
      hi == FileByte(off + 2 * i + 1)
  IN IF hi >= 128 THEN lo + 256 * hi - 65536 ELSE lo + 256 * hi

\* C1: in every reachable state, also between the steps of a seek-relative
\* command and of a producer invocation, 0 <= cursor_bytes <=
\* source_length_bytes (stated for the sources below 2^31 bytes, whose length
\* the i32 cursor can hold).
C1_CursorInRange ==
  (setup = "started" /\ file_size >= 0) => InRange(file_cursor)

\* C2: the offset the Frame Producer gives to the seek/read of the source is
\* within [0, source_length_bytes], whatever the control thread is doing
\* (stated for the sources below 2^31 bytes).
C2_ReadOffsetInRange == (didRead /\ file_size >= 0) => InRange(readOff)

\* C3: no Frame Producer invocation starts once the source handle was closed
\* or the block buffer was released.
C3_NoInvocationAfterRelease ==
  [][nprod' # nprod => (fp = "open" /\ outputState = "alloc")]_vars

\* C4: loop disabled, source of k whole blocks, no control command: while
\* fewer than k invocations have completed playback goes on at cursor
\* n * block; once k have completed is_playing is false and the cursor is the
\* source length; every invocation after that writes silence, reads nothing
\* and leaves the cursor there.
C4_StopsAfterLastBlock ==
  (Undisturbed /\ g_loop_after_complete = 0 /\ WholeBlocks /\ ppc = "idle") =>
     IF nprod < Blocks
       THEN play = 1 /\ file_cursor = nprod * BlockBytes
       ELSE /\ play = 0
            /\ file_cursor = file_size
            /\ nprod > Blocks => (out = Silence /\ ~didRead)

C4_Witness ==
  /\ Undisturbed /\ g_loop_after_complete = 0 /\ WholeBlocks /\ ppc = "idle"
  /\ Blocks = 2 /\ nprod = Blocks + 1
  /\ play = 0 /\ file_cursor = file_size /\ out = Silence

\* C5: loop enabled, source of k whole blocks, no control command: playback
\* never stops, after n completed invocations the cursor is (n mod k) blocks
\* in, so it is 0 again after k, and invocation n + 1 reads the whole block
\* at that offset and writes its samples, scaled by the gain: invocation
\* k + 1 plays the first block again.
C5_LoopsToStart ==
  (Undisturbed /\ g_loop_after_complete # 0 /\ WholeBlocks) =>
     /\ play = 1
     /\ ppc = "idle" => file_cursor = (nprod % Blocks) * BlockBytes
     /\ ppc = "advance" =>
          /\ readOff = ((nprod - 1) % Blocks) * BlockBytes
          /\ bytes_read = BlockBytes
          /\ \A i \in 1..Len(output) : output[i] = FileByte(readOff + (i - 1))
          /\ \A i \in 1..BlockSamples :
               2 * i <= BlockBytes =>
                 out[i] \in ScaleOutcomes(g_volume, FileSample(readOff, i - 1))

C5_Witness ==
  /\ Undisturbed /\ g_loop_after_complete # 0 /\ WholeBlocks
  /\ Blocks = 2 /\ nprod = Blocks + 1 /\ ppc = "advance"
  /\ readOff = 0 /\ bytes_read = BlockBytes
  /\ g_volume = VolumeMax /\ out[1] = FileSample(0, 0) /\ out[1] # 0

\* C6: after a short read (bytes_read < frame_block_bytes) the samples of the
\* output block beyond bytes_read are zero: no sample an earlier invocation
\* left in the block buffer is written to the output.
C6_ShortReadZeroFilled ==
  ppc = "advance" =>
    \A i \in 1..BlockSamples :
      (2 * (i - 1) >= bytes_read /\ SampleAt(output, i - 1) # NoSample) =>
        out[i] = 0

\* C7: an invocation that finds is_playing false writes an all-zero block of
\* exactly frame_block_bytes bytes, does not seek or read, and leaves the
\* cursor, is_playing, the loop flag and the gain as they were.
C7_PausedInvocation ==
  [][(nprod' # nprod /\ play = 0) =>
       /\ out' = Silence
       /\ Len(out') * SampleBytes = BlockBytes
       /\ ~didRead'
       /\ UNCHANGED << file_cursor, play, g_loop_after_complete, g_volume,
                       fpos, output >>]_vars

\* C8: a seek-relative command that runs with no producer step in between,
\* from a cursor c within the source, leaves the cursor at
\* clamp(c + delta, 0, source_length_bytes), which is within the source.
SeekTarget(c, key) ==
  IF key = KEY_LEFT
    THEN (IF c >= g_cursor_speed THEN c - g_cursor_speed ELSE 0)
    ELSE IF file_size >= 0
           THEN (IF file_size - c >= g_cursor_speed
                   THEN c + g_cursor_speed ELSE file_size)
           ELSE (IF c <= MaxI32 - g_cursor_speed
                   THEN c + g_cursor_speed ELSE MinI32)
C8_SeekRelativeClamped ==
  (/\ setup = "started" /\ pc = "clamp_volume" /\ a1 \in { KEY_LEFT, KEY_RIGHT }
   /\ seekFrom # << >> /\ InRange(seekFrom[1])) =>
     /\ file_cursor = SeekTarget(seekFrom[1], a1)
     /\ InRange(file_cursor)

\* C9: seek-to-start leaves the cursor at 0 and seek-to-end leaves it at
\* source_length_bytes.
C9_AbsoluteSeek ==
  [][setup = "started" =>
       /\ SeekToStart => file_cursor' = 0
       /\ SeekToEnd => (file_size >= 0 /\ file_cursor' = file_size)]_vars

\* C10: gain is within [0.0, 1.0] in every state of a session.
C10_GainInRange ==
  setup = "started" => (VolumeMin <= g_volume /\ g_volume <= VolumeMax)

C12_SeekNotOverwritten ==
  [][(/\ ppc = "advance_store" /\ ppc' = "eos"
      /\ setup = "started" /\ pc = "loop" /\ file_size >= 0) =>
       file_cursor' = AddI32(file_cursor, BlockBytes)]_vars

\* C13: when starting the device stream failed, the control loop does not
\* run: no state of such a session has the control thread waiting for a
\* command or handling one.
C13_StartFailureTearsDown ==
  setup = "start_failed" =>
    pc \in { "exit_fclose", "exit_free", "exit_close_stream", "exit_terminate",
             "done" }

\* C14: a producer invocation happens only in a session whose setup
\* succeeded (source opened, block buffer allocated, format supported, stream
\* opened and started): in a run where a setup step failed there is none.
C14_NoInvocationAfterFailedSetup ==
  (nprod > 0 \/ ppc # "idle") => setup = "started"

C14_Witness ==
  /\ setup = "start_failed" /\ ncmd = MaxCmds /\ pc = "done"
  /\ nprod = 0 /\ ppc = "idle"

\* C15: every run that opened the source handle ends with the handle closed
\* and the device stream and the audio library released, and the audio
\* library is released at most once.
C15_ReleasedOnceOnEveryPath ==
  (pc = "done" /\ fp # "null") =>
    /\ fp = "closed"
    /\ stream \notin { "open", "active" }
    /\ pa # "on"
    /\ paTerminates <= 1

\* C16: each control command changes only its own field: toggle-play flips
\* is_playing and leaves the cursor, the gain and the loop flag; every step of
\* a seek-relative command (left, right) leaves the gain and is_playing;
\* every step of an adjust-gain command (up, down) leaves the cursor and
\* is_playing (stated for the sources below 2^31 bytes and the startup gains
\* within [0.0, 1.0]).
ArrowStep(keys) ==
  /\ pc' # pc
  /\ \/ pc = "loop" /\ pc' = "clamp_cursor" /\ a1' \in keys
     \/ pc \in { "clamp_cursor", "clamp_cursor_store", "clamp_volume" } /\ a1 \in keys
C16_CommandFrames ==
  [][(setup = "started" /\ file_size >= 0 /\ g_volume <= VolumeMax + VolumeStep) =>
       /\ TogglePlay =>
            /\ play' # play
            /\ UNCHANGED << file_cursor, g_volume, g_loop_after_complete >>
       /\ ArrowStep({ KEY_LEFT, KEY_RIGHT }) => UNCHANGED << g_volume, play >>
       /\ ArrowStep({ KEY_UP, KEY_DOWN }) => UNCHANGED << file_cursor, play >>]_vars

\* C17: the control surface has a toggle-loop command: whenever the control
\* loop waits for a command, a command that flips loop_enabled can be given.
C17_ToggleLoopCommand ==
  (setup = "started" /\ InLoop) =>
    ENABLED (Control /\ g_loop_after_complete' # g_loop_after_complete)

\* C18: once request-exit was read no further command is read or handled, the
\* control loop ends and binplay_exit is called; and binplay_exit is called
\* in a session that ran the control loop only after request-exit.
CloseCalled ==
  pc \in { "exit_fclose", "exit_free", "exit_close_stream", "exit_terminate",
           "done" }
C18_RequestExitEndsLoop ==
  /\ [][done = 1 => (done' = 1 /\ ncmd' = ncmd /\ pc' # "clamp_cursor")]_vars
  /\ [](done = 1 ~> CloseCalled)
  /\ []((CloseCalled /\ setup \in { "started", "start_failed" }) => done = 1)

C18_Witness ==
  /\ setup = "started" /\ done = 1 /\ pc = "done"
  /\ ncmd = MaxCmds /\ nprod > 0

\* C19: a playing invocation that started at cursor c within the source and
\* ran with no control command read bytes_read = min(B, L - c) bytes and
\* returns with (i) cursor c + B, still playing, when bytes_read = B and
\* c + B < L; otherwise (ii) cursor 0, still playing, when looping, and
\* (iii) cursor L, not playing, when not looping; before the end-of-stream
\* check the cursor was advanced to c + B, whatever bytes_read was.
BytesLeft(c) ==
  IF file_size < 0 \/ file_size - c >= BlockBytes THEN BlockBytes
  ELSE file_size - c
BlockFitsBefore(c) == file_size < 0 \/ c + BlockBytes < file_size
C19_ProducerPostStates ==
  [][(/\ setup = "started" /\ pc = "loop" /\ ncmd = 0
      /\ InRange(readOff)) =>
     /\ (ppc = "advance_store" /\ ppc' = "eos") =>
          file_cursor' = AddI32(readOff, BlockBytes)
     /\ (ppc = "eos" /\ ppc' = "idle") =>
       /\ bytes_read = BytesLeft(readOff)
       /\ IF bytes_read = BlockBytes /\ BlockFitsBefore(readOff)
            THEN file_cursor' = readOff + BlockBytes /\ play' = play
            ELSE IF g_loop_after_complete # 0
                   THEN file_cursor' = 0 /\ play' = play
                   ELSE /\ file_size >= 0 /\ file_cursor' = file_size
                        /\ play' = 0]_vars

C19_Witness ==
  /\ setup = "started" /\ pc = "loop" /\ ncmd = 0 /\ ppc = "idle"
  /\ g_loop_after_complete = 0 /\ file_size = 6 /\ BlockBytes = 4
  /\ nprod = 2 /\ file_cursor = file_size /\ play = 0 /\ didRead

\* C20: cursor arithmetic never wraps or changes sign, for every source
\* length the u32 field stores: seek-to-end leaves the cursor at L, the
\* clamp of a seek-relative command has L as its upper bound, the += and -=
\* of a seek-relative command and the producer's advance do not overflow,
\* and the end-of-stream policy is applied exactly when bytes_read < B or
\* the cursor, as a number, is at or beyond L.
AtOrBeyondEnd(c) == c >= 0 /\ file_size >= 0 /\ c >= file_size
C20_NoWrapNoSignChange ==
  [][setup = "started" =>
       /\ SeekToEnd => (file_cursor' >= 0 /\ file_cursor' = file_size)
       /\ ArrowKey =>
            /\ a1' = KEY_RIGHT => file_cursor' > file_cursor
            /\ a1' = KEY_LEFT => file_cursor' < file_cursor
       /\ ClampCursorEval =>
            clampTmp' = (IF file_cursor < 0 THEN 0
                         ELSE IF AtOrBeyondEnd(file_cursor) THEN file_size
                         ELSE file_cursor)
       /\ ProcAdvanceStore => file_cursor' > advTmp
       /\ ProcEos =>
            ((bytes_read >= BlockBytes /\ ~AtOrBeyondEnd(file_cursor)) =>
               UNCHANGED << file_cursor, play >>)]_vars

\* C21: in every playing invocation the bytes requested from the source, the
\* bytes copied to the device block and the size of the block buffer agree
\* (all are frame_block_bytes), and every sample the copy loop reads lies
\* inside the block buffer.
C21_BlockSizesAgree ==
  [][(nprod' # nprod /\ play # 0 /\ fp = "open" /\ outputState = "alloc") =>
       /\ output_size = BlockBytes
       /\ Len(output') = output_size
       /\ Len(out') * SampleBytes = BlockBytes
       /\ \A i \in 1..Len(out') : SampleBytes * i <= Len(output')]_vars

\* C22: the callback never signals completion: as long as a started session
\* is in its control loop the stream is active, also after playback stopped
\* at the end of the stream or was paused; an invocation that finds
\* is_playing false emits silence and does not read, and one that finds it
\* true (again) reads the source at the current cursor.
InControlLoop ==
  pc \in { "loop", "clamp_cursor", "clamp_cursor_store", "clamp_volume" }
C22_StreamStaysOpen ==
  /\ []((setup = "started" /\ InControlLoop) => stream = "active")
  /\ [][(nprod' # nprod /\ fp = "open") =>
          IF play = 0
            THEN ~didRead' /\ \A i \in 1..Len(out') : out'[i] = 0
            ELSE didRead' /\ readOff' = file_cursor]_vars

C22_Witness ==
  /\ setup = "started" /\ pc = "loop" /\ stream = "active"
  /\ g_loop_after_complete = 0 /\ file_size = BlockBytes /\ ncmd = 1
  /\ nprod = 3 /\ ppc = "advance" /\ play = 1
  /\ didRead /\ readOff = file_size /\ bytes_read = 0

====
